---- MODULE Spec2Model ----
(***************************************************************************)
(* A model of the three scripts of SmartAI-MLInfrastructure:               *)
(*   EnvSetup.py        the orchestrating CLI, its self-test and the mock  *)
(*                      DCIM server (specification Spec)                   *)
(*   ServerTest.py      the demo REST API (specification SpecDemo)         *)
(*   SmartGPUMonitor.py the Streamlit dashboard (SpecDash, SpecDashFair)   *)
(* Real numbers are integers counted in 1/Scale: random() is r/Scale and a *)
(* temperature of 24.5 degrees is 24500000.                                *)
(***************************************************************************)
EXTENDS Integers, Sequences, FiniteSets, TLC

VARIABLES
    \* ---- EnvSetup.py
    cliPc,        \* position of the CLI process
    mode,         \* args.mode
    exitCode,     \* exit status of the process, "none" while it runs
    raised,       \* kind of the exception raised by the selected mode's work
    selfTest,     \* outcome of test_basic_functionality
    checksRun,    \* the checks the self-test attempted, in order
    dataDir,      \* ./data exists
    testFile,     \* ./data/test.json exists
    routes,       \* url map of the Flask app built by create_mock_dcim_server
    wallClock,    \* local wall-clock time, as read by datetime.now()
    clockSetBack, \* the wall clock was set back since the last /health response
    healthSeen,   \* the timestamps of the last two /health responses, as the
                  \* client received them, oldest first
    response,     \* the response most recently returned by the mock DCIM server
    \* ---- ServerTest.py
    port9000,     \* who listens on localhost:9000: "self", "other", "closed"
    threaded,     \* the development server gives each request its own thread
    remotePc,     \* position of get_remote_metrics
    nested,       \* the nested GET http://localhost:9000/api/metrics
    demoClock,    \* clock read by get_current_metrics
    demoResponse, \* the response most recently returned by the demo API
    propagated,   \* an exception left get_remote_metrics
    \* ---- SmartGPUMonitor.py
    dashPc,       \* position of the current script run
    auto_refresh, \* value of the "Auto-refresh (3s)" checkbox
    has_last_refresh, \* 'last_refresh' in st.session_state
    time_elapsed, \* seconds since st.session_state.last_refresh, saturating
    clicked,      \* the button whose click triggered the current script run
    rendered      \* what the last render showed

envVars  == <<cliPc, mode, exitCode, raised, selfTest, checksRun, dataDir,
              testFile, routes, wallClock, clockSetBack, healthSeen, response>>
demoVars == <<port9000, threaded, remotePc, nested, demoClock, demoResponse, propagated>>
dashVars == <<dashPc, auto_refresh, has_last_refresh, time_elapsed, clicked,
              rendered>>
vars     == <<envVars, demoVars, dashVars>>

None == "none"

(***************************************************************************)
(* Bounds of the model.                                                    *)
(***************************************************************************)
\* how many values of random() are sampled, spread evenly over [0, 1)
NumSamples == 3
\* the wall clock counts 0..MaxClock
MaxClock == 2

Scale == 10 ^ 6

(***************************************************************************)
(* The random source (module random).                                      *)
(***************************************************************************)
\* the sampled values of random.random(), times Scale: 0 <= r < Scale
RandomSamples ==
    {(i * (Scale - 1)) \div (NumSamples - 1) : i \in 0..(NumSamples - 1)}

\* random.randint(a, b) = a + randbelow(b - a + 1)
randint(a, b, r) == a + (r * (b - a + 1)) \div Scale

\* random.uniform(a, b) = a + (b - a) * random(), in 1/Scale
uniform(a, b, r) == a * Scale + (b - a) * r

\* random.choice(seq) = seq[randbelow(len(seq))]
choice(seq, r) == seq[1 + (r * Len(seq)) \div Scale]

\* round(x, ndigits) of a value in 1/Scale: to the nearest multiple of
\* 10^-ndigits, a tie going to the even multiple
round(x, ndigits) ==
    LET unit == Scale \div (10 ^ ndigits)
        q    == x \div unit
        rem  == x % unit
    IN  IF 2 * rem < unit THEN q * unit
        ELSE IF 2 * rem > unit THEN (q + 1) * unit
        ELSE IF q % 2 = 0 THEN q * unit ELSE (q + 1) * unit

\* the format spec {i:02d}
Fmt02d(i) == IF i < 10 THEN "0" \o ToString(i) ELSE ToString(i)

\* all sequences of length n over S
Tuples(n, S) == [1..n -> S]

(***************************************************************************)
(* EnvSetup.py: create_mock_dcim_server and its four handlers.             *)
(***************************************************************************)
PowerPath   == "/api/v2/racks/power"
TempPath    == "/nlyte/api/v1/sensors/temperature"
CoolingPath == "/nlyte/api/v1/cooling/units"
HealthPath  == "/health"

DcimRoutes == {PowerPath, TempPath, CoolingPath, HealthPath}

NoResponse == [endpoint |-> None]

PowerMin == 7500
PowerMax == 8500
TempMin == 20
TempMax == 30
LoadMin == 60
LoadMax == 85
CapacityKw == 50
\* range(1, 4): the exclusive end of the index range
RangeEnd == 4

locations == <<"rack-01", "rack-02", "server-room">>
types == <<"ambient", "supply", "return">>
statuses == <<"operational", "operational", "operational", "warning">>

\* zip(locations, types): pairs up to the shorter list
zip(xs, ys) ==
    [i \in 1..(IF Len(xs) < Len(ys) THEN Len(xs) ELSE Len(ys)) |-> <<xs[i], ys[i]>>]

RackRecordWide(i, r) ==
    [id |-> "rack-" \o Fmt02d(i),
     location |-> "Row-" \o ToString((i - 1) \div 2 + 1),
     power_consumption_watts |-> randint(PowerMin, PowerMax + 1, r),
     pdu_id |-> "pdu-" \o Fmt02d(i),
     pdu_status |-> "operational"]

RackRecord(i, r) ==
    [id |-> "rack-" \o Fmt02d(i),
     location |-> "Row-" \o ToString((i - 1) \div 2 + 1),
     power_consumption_watts |-> randint(PowerMin, PowerMax, r),
     pdu_id |-> "pdu-" \o Fmt02d(i),
     pdu_status |-> "operational"]

SensorRecordUnrounded(i, pair, r) ==
    [id |-> "temp-" \o Fmt02d(i),
     location |-> pair[1],
     type |-> pair[2],
     temperature_celsius |-> uniform(TempMin, TempMax, r)]

\* i is enumerate's index, from 0
SensorRecord(i, pair, r) ==
    [id |-> "temp-" \o Fmt02d(i),
     location |-> pair[1],
     type |-> pair[2],
     temperature_celsius |-> round(uniform(TempMin, TempMax, r), 1)]

CoolingRecordOverload(i, rs, rl) ==
    [id |-> "crac-" \o Fmt02d(i),
     location |-> "Zone-" \o ToString(i),
     status |-> choice(statuses, rs),
     capacity_kw |-> CapacityKw,
     current_load_percent |-> randint(LoadMin, 100, rl)]

CoolingRecord(i, rs, rl) ==
    [id |-> "crac-" \o Fmt02d(i),
     location |-> "Zone-" \o ToString(i),
     status |-> choice(statuses, rs),
     capacity_kw |-> CapacityKw,
     current_load_percent |-> randint(LoadMin, LoadMax, rl)]

HealthBodyFrozen(now) ==
    [status |-> "healthy", service |-> "Mock DCIM Server", timestamp |-> 0]

HealthBody(now) ==
    [status |-> "healthy", service |-> "Mock DCIM Server", timestamp |-> now]

\* the bodies each handler can return, one per outcome of its draws
PowerBodies ==
    {[racks |-> [k \in 1..(RangeEnd - 1) |-> RackRecord(k, rs[k])]] :
        rs \in Tuples(RangeEnd - 1, RandomSamples)}

TempBodies ==
    LET pairs == zip(locations, types)
    IN  {[sensors |-> [k \in 1..Len(pairs) |-> SensorRecord(k - 1, pairs[k], rs[k])]] :
         rs \in Tuples(Len(pairs), RandomSamples)}

CoolingBodies ==
    {[cooling_units |->
        [k \in 1..(RangeEnd - 1) |-> CoolingRecord(k, rs[k][1], rs[k][2])]] :
     rs \in Tuples(RangeEnd - 1, RandomSamples \X RandomSamples)}

Reply(path, body) == [endpoint |-> path, status |-> 200, body |-> body]

\* app.run is serving, one request at a time: a request is taken when the
\* response to the one before it has gone out
Serving == cliPc = "serving"
Ready(path) == Serving /\ path \in routes /\ response = NoResponse

\* what a handler leaves alone: everything but the response it returns
HandlerFrame ==
    /\ UNCHANGED <<cliPc, mode, exitCode, raised, selfTest, checksRun, dataDir,
                   testFile, routes, wallClock>>
    /\ UNCHANGED <<demoVars, dashVars>>

\* the handler keeping its readings in a file under ./data
get_rack_power_persisting ==
    /\ Ready(PowerPath)
    /\ \E b \in PowerBodies : response' = Reply(PowerPath, b)
    /\ dataDir' = TRUE /\ testFile' = TRUE
    /\ UNCHANGED <<cliPc, mode, exitCode, raised, selfTest, checksRun, routes,
                   wallClock, clockSetBack, healthSeen>>
    /\ UNCHANGED <<demoVars, dashVars>>

get_rack_power ==
    /\ Ready(PowerPath)
    /\ \E b \in PowerBodies : response' = Reply(PowerPath, b)
    /\ UNCHANGED <<clockSetBack, healthSeen>>
    /\ HandlerFrame

get_temperature ==
    /\ Ready(TempPath)
    /\ \E b \in TempBodies : response' = Reply(TempPath, b)
    /\ UNCHANGED <<clockSetBack, healthSeen>>
    /\ HandlerFrame

get_cooling_status ==
    /\ Ready(CoolingPath)
    /\ \E b \in CoolingBodies : response' = Reply(CoolingPath, b)
    /\ UNCHANGED <<clockSetBack, healthSeen>>
    /\ HandlerFrame

LastTwo(seq) == IF Len(seq) > 2 THEN Tail(seq) ELSE seq

\* the client keeps the timestamp of the response for its next comparison
health_check ==
    /\ Ready(HealthPath)
    /\ response' = Reply(HealthPath, HealthBody(wallClock))
    /\ healthSeen' = LastTwo(Append(healthSeen, response'.body.timestamp))
    /\ clockSetBack' = FALSE
    /\ HandlerFrame

\* the response goes out to the client; nothing of it stays in the server
send_response ==
    /\ response # NoResponse
    /\ response' = NoResponse
    /\ UNCHANGED <<clockSetBack, healthSeen>>
    /\ HandlerFrame

(***************************************************************************)
(* The wall clock: it advances, and it can be set back (a DST change of    *)
(* the naive local time datetime.now() returns, an NTP step, the operator).*)
(* Only the serving process reads it, so it is followed while it serves.   *)
(***************************************************************************)
ClockTick ==
    /\ Serving
    /\ wallClock < MaxClock
    /\ wallClock' = wallClock + 1
    /\ UNCHANGED <<cliPc, mode, exitCode, raised, selfTest, checksRun, dataDir,
                   testFile, routes, clockSetBack, healthSeen, response>>
    /\ UNCHANGED <<demoVars, dashVars>>

ClockSetBack ==
    /\ Serving
    /\ \E t \in 0..(wallClock - 1) : wallClock' = t
    /\ clockSetBack' = TRUE
    /\ UNCHANGED <<cliPc, mode, exitCode, raised, selfTest, checksRun, dataDir,
                   testFile, routes, healthSeen, response>>
    /\ UNCHANGED <<demoVars, dashVars>>

(***************************************************************************)
(* EnvSetup.py: the self-test, the mode runners and main.                  *)
(***************************************************************************)
Modes == {"test", "mock-dcim", "benchmark", "info"}

\* the handlers of lines 255-264: KeyboardInterrupt exits 0; an Exception
\* exits 1; a SystemExit is no Exception and keeps its own code, 1
ExitCodeFor(kind) == IF kind = "KeyboardInterrupt" THEN 0 ELSE 1

\* an exception nobody below the top level catches
Unhandled(kind) ==
    /\ cliPc' = "exited"
    /\ raised' = kind
    /\ exitCode' = ExitCodeFor(kind)

EnvRest == UNCHANGED <<wallClock, clockSetBack, healthSeen, response,
                       demoVars, dashVars>>

\* parser.parse_args(): a valid --mode, or argparse's usage error (exit 2)
parse_args ==
    /\ cliPc = "start"
    /\ \/ /\ \E m \in Modes : mode' = m
          /\ cliPc' = "dispatch"
          /\ UNCHANGED exitCode
       \/ /\ cliPc' = "exited"
          /\ exitCode' = 2
          /\ UNCHANGED mode
    /\ UNCHANGED <<raised, selfTest, checksRun, dataDir, testFile, routes>>
    /\ EnvRest

\* show_system_info: its first prints are unguarded (os.getcwd() can raise)
InfoOutcomes == {"ok", "Exception"}

\* mode test, line 235
main_test_info ==
    /\ cliPc = "dispatch" /\ mode = "test"
    /\ \E o \in InfoOutcomes :
          IF o = "ok"
          THEN cliPc' = "imports" /\ UNCHANGED <<raised, exitCode>>
          ELSE Unhandled(o)
    /\ UNCHANGED <<mode, selfTest, checksRun, dataDir, testFile, routes>>
    /\ EnvRest

\* Test 1, lines 89-96: only ImportError is caught
check_imports ==
    /\ cliPc = "imports"
    /\ checksRun' = Append(checksRun, "imports")
    /\ \E o \in {"ok", "ImportError", "Exception"} :
          CASE o = "ok" ->
                 cliPc' = "filesystem" /\ UNCHANGED <<selfTest, raised, exitCode>>
            [] o = "ImportError" ->
                 /\ selfTest' = "False"
                 /\ cliPc' = "tested"
                 /\ UNCHANGED <<raised, exitCode>>
            [] OTHER ->
                 selfTest' = "raised" /\ Unhandled(o)
    /\ UNCHANGED <<mode, dataDir, testFile, routes>>
    /\ EnvRest

\* the steps of Test 2 that can fail
FsSteps == {"makedirs", "open", "dump", "remove"}

\* the file system after Test 2 failed at failAt, or ran through (None):
\* makedirs creates ./data, open(.., 'w') creates the file, os.remove deletes it
FsAfter(failAt, dir, file) ==
    CASE failAt = "makedirs" -> [dataDir |-> dir, testFile |-> file]
      [] failAt = "open"     -> [dataDir |-> TRUE, testFile |-> file]
      [] failAt = "dump"     -> [dataDir |-> TRUE, testFile |-> TRUE]
      [] failAt = "remove"   -> [dataDir |-> TRUE, testFile |-> TRUE]
      [] OTHER               -> [dataDir |-> TRUE, testFile |-> FALSE]

\* Test 2, lines 99-108
check_filesystem ==
    /\ cliPc = "filesystem"
    /\ checksRun' = Append(checksRun, "filesystem")
    /\ \E failAt \in FsSteps \cup {None} :
          /\ dataDir' = FsAfter(failAt, dataDir, testFile).dataDir
          /\ testFile' = FsAfter(failAt, dataDir, testFile).testFile
          /\ IF failAt = None
             THEN cliPc' = "network" /\ UNCHANGED selfTest
             ELSE cliPc' = "tested" /\ selfTest' = "False"
    /\ UNCHANGED <<mode, exitCode, raised, routes>>
    /\ EnvRest

\* Test 3, lines 111-123
check_network ==
    /\ cliPc = "network"
    /\ checksRun' = Append(checksRun, "network")
    /\ \E ok \in BOOLEAN : selfTest' = IF ok THEN "True" ELSE "False"
    /\ cliPc' = "tested"
    /\ UNCHANGED <<mode, exitCode, raised, dataDir, testFile, routes>>
    /\ EnvRest

\* lines 237-241
main_test_result ==
    /\ cliPc = "tested"
    /\ IF selfTest = "False"
       THEN cliPc' = "exited" /\ exitCode' = 1
       ELSE cliPc' = "done" /\ UNCHANGED exitCode
    /\ UNCHANGED <<mode, raised, selfTest, checksRun, dataDir, testFile, routes>>
    /\ EnvRest

\* what app.run can do at start: serve, raise an Exception (caught at line
\* 140), or, in a framework version that ends the process itself when the
\* port cannot be bound, raise SystemExit(1)
StartOutcomes == {"serving", "Exception", "SystemExit"}

\* lines 125-141, up to the server serving or failing to start
run_mock_dcim_server ==
    /\ cliPc = "dispatch" /\ mode = "mock-dcim"
    /\ routes' = DcimRoutes
    /\ \E o \in StartOutcomes :
          CASE o = "serving" -> cliPc' = "serving" /\ UNCHANGED <<raised, exitCode>>
            [] o = "Exception" ->
                 cliPc' = "done" /\ raised' = o /\ UNCHANGED exitCode
            [] OTHER -> Unhandled(o)
    /\ UNCHANGED <<mode, selfTest, checksRun, dataDir, testFile>>
    /\ EnvRest

\* app.run ends while serving: Ctrl+C (line 138) or an Exception (line 140),
\* both caught in run_mock_dcim_server
app_run_ends ==
    /\ cliPc = "serving"
    /\ \E k \in {"KeyboardInterrupt", "Exception"} : raised' = k
    /\ cliPc' = "done"
    /\ UNCHANGED <<mode, exitCode, selfTest, checksRun, dataDir, testFile, routes>>
    /\ EnvRest

\* lines 143-176: ImportError of GPUtil is caught, anything else propagates
run_quick_benchmark ==
    /\ cliPc = "dispatch" /\ mode = "benchmark"
    /\ \E o \in {"ok", "Exception"} :
          IF o = "ok"
          THEN cliPc' = "done" /\ UNCHANGED <<raised, exitCode>>
          ELSE Unhandled(o)
    /\ UNCHANGED <<mode, selfTest, checksRun, dataDir, testFile, routes>>
    /\ EnvRest

\* mode info, line 250
main_info ==
    /\ cliPc = "dispatch" /\ mode = "info"
    /\ \E o \in InfoOutcomes :
          IF o = "ok"
          THEN cliPc' = "done" /\ UNCHANGED <<raised, exitCode>>
          ELSE Unhandled(o)
    /\ UNCHANGED <<mode, selfTest, checksRun, dataDir, testFile, routes>>
    /\ EnvRest

\* Ctrl+C outside the server: nothing below line 257 catches it
interrupt ==
    /\ cliPc \in {"dispatch", "imports", "filesystem", "network"}
    /\ Unhandled("KeyboardInterrupt")
    /\ UNCHANGED <<mode, selfTest, checksRun, dataDir, testFile, routes>>
    /\ EnvRest

\* line 252, then the script ends
main_done ==
    /\ cliPc = "done"
    /\ cliPc' = "exited"
    /\ exitCode' = 0
    /\ UNCHANGED <<mode, raised, selfTest, checksRun, dataDir, testFile, routes>>
    /\ EnvRest

(***************************************************************************)
(* ServerTest.py: the routes of TestServerAPI and Flask's dispatch.        *)
(***************************************************************************)
\* run(port=9000) puts this server on localhost:9000; with another port the
\* address is closed or belongs to another program
Listeners == {"self", "other", "closed"}

\* setup_routes: each rule with its methods, its view function and the URL
\* variables the rule declares (none of the rules has a <variable>)
DemoRoutes ==
    {[rule |-> "/api/response", methods |-> {"GET"}, view |-> "server_response",
      rule_args |-> {}],
     [rule |-> "/api/server_alert", methods |-> {"GET"}, view |-> "get_alert",
      rule_args |-> {}],
     [rule |-> "/api/metrics", methods |-> {"GET"}, view |-> "get_current_metrics",
      rule_args |-> {}],
     [rule |-> "/api/metrics/remote", methods |-> {"GET"}, view |-> "get_remote_metrics",
      rule_args |-> {}],
     [rule |-> "/api/hello", methods |-> {"POST"}, view |-> "post_hello",
      rule_args |-> {}]}

\* the parameters each view function requires
ViewParams(view) == IF view = "get_alert" THEN {"name"} ELSE {}

\* the requests clients send: the registered rules, and /api/alert, the
\* path the start-up banner prints
DemoRequests ==
    [method : {"GET", "POST"},
     path : {r.rule : r \in DemoRoutes} \cup {"/api/alert"}]

\* Flask's routing: 404 without a rule for the path, 405 when the rule does
\* not take the method, otherwise the view called with the rule's variables
\* as keyword arguments, which is a TypeError (500) unless they are the
\* parameters the view requires
Dispatch(req) ==
    LET rules == {r \in DemoRoutes : r.rule = req.path}
        hit   == {r \in rules : req.method \in r.methods}
    IN  IF rules = {} THEN [status |-> 404, view |-> None]
        ELSE IF hit = {} THEN [status |-> 405, view |-> None]
        ELSE LET r == CHOOSE x \in hit : TRUE
             IN  IF ViewParams(r.view) # r.rule_args
                 THEN [status |-> 500, view |-> r.view]
                 ELSE [status |-> 200, view |-> r.view]

\* get_current_metrics, lines 46-52
MetricsData(now) ==
    [cpu_usage |-> "45%", memory_usage |-> "67%", disk_space |-> "23GB free",
     uptime |-> "5 days, 3 hours", timestamp |-> now]

\* the body a view returns (get_remote_metrics is in steps, below); <name>
\* stands for the value of get_alert's argument
ViewBody(view, now) ==
    CASE view = "server_response" ->
           [message |-> " server ping message !", status |-> "success"]
      [] view = "get_alert" ->
           [message |-> "Alert, " \o "<name>" \o "!", status |-> "success",
            name |-> "<name>"]
      [] view = "get_current_metrics" -> MetricsData(now)
      [] view = "post_hello" ->
           [message |-> "Hello from POST request!", method |-> "POST"]

ErrorBody(d) ==
    CASE d.status = 404 -> [error |-> "Not Found"]
      [] d.status = 405 -> [error |-> "Method Not Allowed"]
      [] OTHER          -> [error |-> "Internal Server Error"]

DemoReply(req, status, body) ==
    [endpoint |-> req.path, method |-> req.method, status |-> status, body |-> body]

DemoRest == UNCHANGED <<envVars, dashVars>>

\* run, lines 113-115: app.run gets no `threaded` option, so the framework
\* decides whether requests are handled one at a time. A request can be
\* taken when no handler is running, or when each request has its own thread
CanServe == remotePc = "idle" \/ threaded

\* a request to any route but /api/metrics/remote, answered in one step
demo_request ==
    /\ CanServe
    /\ \E req \in DemoRequests :
          LET d == Dispatch(req)
          IN  /\ d.view # "get_remote_metrics"
              /\ demoResponse' =
                    IF d.status = 200
                    THEN DemoReply(req, 200, ViewBody(d.view, demoClock))
                    ELSE DemoReply(req, d.status, ErrorBody(d))
    /\ UNCHANGED <<port9000, threaded, remotePc, nested, demoClock, propagated>>
    /\ DemoRest

(***************************************************************************)
(* ServerTest.py: get_remote_metrics, lines 66-102.                        *)
(***************************************************************************)
RemoteRequest == [method |-> "GET", path |-> "/api/metrics/remote"]

\* line 73: the handler sends GET http://localhost:9000/api/metrics and waits
remote_call ==
    /\ remotePc = "idle"
    /\ Dispatch(RemoteRequest).view = "get_remote_metrics"
    /\ remotePc' = "waiting"
    /\ nested' = [kind |-> "sent"]
    /\ UNCHANGED <<port9000, threaded, demoClock, demoResponse, propagated>>
    /\ DemoRest

\* what another program on the port can answer
OtherAnswers ==
    {[kind |-> "response", status |-> st, json |-> j] :
        st \in {200, 404, 500}, j \in {"metrics", "no_keys", "not_json"}}

\* how the nested call ends: answered by get_current_metrics of this
\* server, answered by another program, refused, or broken off. This
\* server answers only if it can take a request while get_remote_metrics
\* is waiting; requests.get has no timeout, so until then the call stays sent
nested_outcome ==
    /\ remotePc = "waiting"
    /\ nested.kind = "sent"
    /\ \/ /\ port9000 = "self"
          /\ CanServe
          /\ Dispatch([method |-> "GET", path |-> "/api/metrics"]).status = 200
          /\ nested' = [kind |-> "response", status |-> 200, json |-> "metrics"]
       \/ /\ port9000 = "other"
          /\ \E a \in OtherAnswers : nested' = a
       \/ /\ port9000 = "closed"
          /\ nested' = [kind |-> "ConnectionError"]
       \/ /\ port9000 = "other" \/ (port9000 = "self" /\ CanServe)
          /\ nested' = [kind |-> "ChunkedEncodingError"]
    /\ UNCHANGED <<port9000, threaded, remotePc, demoClock, demoResponse, propagated>>
    /\ DemoRest

\* the try block, lines 72-94: what it returns or raises
RemoteTry(n, now) ==
    IF n.kind # "response" THEN [raise |-> n.kind]
    ELSE IF n.status = 200
         THEN CASE n.json = "not_json" -> [raise |-> "JSONDecodeError"]
                [] n.json = "no_keys"  -> [raise |-> "KeyError"]
                [] OTHER ->
                     [return |-> [source |-> "HTTP Request",
                                  method |-> "GET /api/metrics",
                                  data |-> MetricsData(now),
                                  status |-> "success"]]
         ELSE [return |-> [error |-> "Failed to fetch metrics",
                           status_code |-> n.status]]

\* the except clauses with `except Exception` missing
RemoteExceptConnectionOnly(t) ==
    IF "return" \in DOMAIN t THEN t
    ELSE IF t.raise = "ConnectionError"
         THEN [return |-> [error |-> "Connection failed - make sure server is running",
                           message |-> "Try accessing /api/metrics first"]]
         ELSE t

\* the except clauses, lines 96-102; all the exceptions here are Exceptions
RemoteExcept(t) ==
    IF "return" \in DOMAIN t THEN t
    ELSE IF t.raise = "ConnectionError"
         THEN [return |-> [error |-> "Connection failed - make sure server is running",
                           message |-> "Try accessing /api/metrics first"]]
         ELSE [return |-> [error |-> t.raise]]

\* lines 75-102: the handler goes on with the outcome of the nested call; an
\* exception that leaves it becomes Flask's 500
remote_return ==
    /\ remotePc = "waiting"
    /\ nested.kind # "sent"
    /\ LET t == RemoteExcept(RemoteTry(nested, demoClock))
       IN  IF "return" \in DOMAIN t
           THEN /\ demoResponse' = DemoReply(RemoteRequest, 200, t.return)
                /\ UNCHANGED propagated
           ELSE /\ demoResponse' =
                      DemoReply(RemoteRequest, 500, [error |-> "Internal Server Error"])
                /\ propagated' = TRUE
    /\ remotePc' = "idle"
    /\ UNCHANGED <<port9000, threaded, nested, demoClock>>
    /\ DemoRest

DemoTick ==
    /\ demoClock < MaxClock
    /\ demoClock' = demoClock + 1
    /\ UNCHANGED <<port9000, threaded, remotePc, nested, demoResponse, propagated>>
    /\ DemoRest

(***************************************************************************)
(* SmartGPUMonitor.py: one script run of main per page load, widget event  *)
(* or st.rerun(); between runs the script is idle.  time_elapsed follows   *)
(* now - st.session_state.last_refresh, and stops counting at the          *)
(* threshold of line 91, the only value it is compared with.               *)
(***************************************************************************)
RefreshSeconds == 3

Min(a, b) == IF a < b THEN a ELSE b

\* the sampled readings of psutil, in percent
PercentSamples == {(i * 100) \div (NumSamples - 1) : i \in 0..(NumSamples - 1)}

\* get_gpu_stats, lines 10-36: a list of GPUs, an empty list, or one of
\* the two except clauses (both leave the list empty)
GpuOutcomes == {"gpus", "no_gpus", "ImportError", "Exception"}

NothingShown == [shown |-> None, cpu |-> 0, memory |-> 0, gpu |-> None]

DashRest == UNCHANGED <<envVars, demoVars>>

\* the browser opens the page: a new session, the checkbox at value=True
open_page ==
    /\ dashPc = "closed"
    /\ dashPc' = "top"
    /\ UNCHANGED <<auto_refresh, has_last_refresh, time_elapsed, clicked, rendered>>
    /\ DashRest

\* lines 81-93: st.rerun() ends this run and starts the next, in which no
\* button reads as clicked
main_top ==
    /\ dashPc = "top"
    /\ has_last_refresh' = TRUE
    /\ LET elapsed == IF has_last_refresh THEN time_elapsed ELSE 0
       IN  IF auto_refresh /\ elapsed >= RefreshSeconds
           THEN /\ time_elapsed' = 0
                /\ dashPc' = "top"
                /\ clicked' = None
           ELSE /\ time_elapsed' = elapsed
                /\ dashPc' = "body"
                /\ UNCHANGED clicked
    /\ UNCHANGED <<auto_refresh, rendered>>
    /\ DashRest

\* lines 95-117: the render of freshly sampled statistics, or of the error
\* of line 110; psutil.cpu_percent(interval=1) takes one second
main_body ==
    /\ dashPc = "body"
    /\ \E ok \in BOOLEAN, cpu \in PercentSamples, mem \in PercentSamples,
          gpu \in GpuOutcomes :
          rendered' = IF ok
                      THEN [shown |-> "metrics", cpu |-> cpu, memory |-> mem, gpu |-> gpu]
                      ELSE [shown |-> "error", cpu |-> 0, memory |-> 0, gpu |-> gpu]
    /\ time_elapsed' = Min(time_elapsed + 1, RefreshSeconds)
    /\ dashPc' = "footer"
    /\ UNCHANGED <<auto_refresh, has_last_refresh, clicked>>
    /\ DashRest

\* lines 119-134: the buttons, then the script ends and nothing runs until
\* the next widget event
main_footer ==
    /\ dashPc = "footer"
    /\ dashPc' = IF clicked = "refresh" THEN "top" ELSE "idle"
    /\ clicked' = None
    /\ UNCHANGED <<auto_refresh, has_last_refresh, time_elapsed, rendered>>
    /\ DashRest

\* the user ticks or unticks the checkbox: a script run with the new value
toggle_auto_refresh ==
    /\ dashPc = "idle"
    /\ auto_refresh' = ~auto_refresh
    /\ dashPc' = "top"
    /\ UNCHANGED <<has_last_refresh, time_elapsed, clicked, rendered>>
    /\ DashRest

\* the user clicks a button: a script run in which it reads as clicked
click_button ==
    /\ dashPc = "idle"
    /\ \E b \in {"refresh", "sysinfo"} : clicked' = b
    /\ dashPc' = "top"
    /\ UNCHANGED <<auto_refresh, has_last_refresh, time_elapsed, rendered>>
    /\ DashRest

\* a second passes while the script is idle (a script run takes no time
\* but for the second main_body spends sampling)
DashTick ==
    /\ dashPc = "idle"
    /\ time_elapsed < RefreshSeconds
    /\ time_elapsed' = time_elapsed + 1
    /\ UNCHANGED <<dashPc, auto_refresh, has_last_refresh, clicked, rendered>>
    /\ DashRest

(***************************************************************************)
(* Initial states and the specification of EnvSetup.py.                    *)
(***************************************************************************)
EnvInit ==
    /\ cliPc = "start"
    /\ mode = None
    /\ exitCode = None
    /\ raised = None
    /\ selfTest = None
    /\ checksRun = <<>>
    /\ dataDir \in BOOLEAN
    /\ testFile = FALSE
    /\ routes = {}
    /\ wallClock = 0
    /\ clockSetBack = FALSE
    /\ healthSeen = <<>>
    /\ response = NoResponse

DemoInit ==
    /\ port9000 \in Listeners
    /\ threaded \in BOOLEAN
    /\ remotePc = "idle"
    /\ nested = [kind |-> None]
    /\ demoClock = 0
    /\ demoResponse = NoResponse
    /\ propagated = FALSE

DashInit ==
    /\ dashPc = "closed"
    /\ auto_refresh = TRUE
    /\ has_last_refresh = FALSE
    /\ time_elapsed = 0
    /\ clicked = None
    /\ rendered = NothingShown

\* each specification starts its own script; the other two stay as they are
Init == EnvInit /\ DemoInit /\ port9000 = "self" /\ threaded /\ DashInit

InitDemo == EnvInit /\ dataDir = FALSE /\ DemoInit /\ DashInit

InitDash ==
    /\ EnvInit /\ dataDir = FALSE
    /\ DemoInit /\ port9000 = "self" /\ threaded
    /\ DashInit

Next ==
    \/ parse_args
    \/ main_test_info
    \/ check_imports
    \/ check_filesystem
    \/ check_network
    \/ main_test_result
    \/ run_mock_dcim_server
    \/ app_run_ends
    \/ run_quick_benchmark
    \/ main_info
    \/ interrupt
    \/ main_done
    \/ get_rack_power
    \/ get_temperature
    \/ get_cooling_status
    \/ health_check
    \/ send_response
    \/ ClockTick
    \/ ClockSetBack

Spec == Init /\ [][Next]_vars

NextDemo ==
    \/ demo_request
    \/ remote_call
    \/ nested_outcome
    \/ remote_return
    \/ DemoTick

SpecDemo == InitDemo /\ [][NextDemo]_vars

\* whoever can answer the nested call does, and the handler goes on when
\* requests.get returns; clients owe no requests
SpecDemoFair ==
    /\ SpecDemo
    /\ WF_vars(nested_outcome)
    /\ WF_vars(remote_return)

NextDash ==
    \/ open_page
    \/ main_top
    \/ main_body
    \/ main_footer
    \/ toggle_auto_refresh
    \/ click_button
    \/ DashTick

SpecDash == InitDash /\ [][NextDash]_vars

\* a script run goes on to its end and time passes; the user owes nothing
SpecDashFair ==
    /\ SpecDash
    /\ WF_vars(open_page)
    /\ WF_vars(main_top)
    /\ WF_vars(main_body)
    /\ WF_vars(main_footer)
    /\ WF_vars(DashTick)

(***************************************************************************)
(* Properties of the mock DCIM server (Spec).                              *)
(***************************************************************************)
ElemsOf(seq) == {seq[i] : i \in 1..Len(seq)}

\* C1: every response of GET /api/v2/racks/power carries a list 'racks' of
\* exactly 3 records, each with 7500 <= power_consumption_watts <= 8500 and
\* pdu_status 'operational'.
C1_RackPower ==
    response.endpoint = PowerPath =>
        /\ response.status = 200
        /\ Len(response.body.racks) = 3
        /\ \A rack \in ElemsOf(response.body.racks) :
              /\ rack.power_consumption_watts >= 7500
              /\ rack.power_consumption_watts <= 8500
              /\ rack.pdu_status = "operational"

\* a power response that holds both ends of the range
C1_Witness ==
    /\ response.endpoint = PowerPath
    /\ \E a, b \in ElemsOf(response.body.racks) :
          /\ a.power_consumption_watts = 7500
          /\ b.power_consumption_watts = 8500

\* C2: every response of GET /nlyte/api/v1/sensors/temperature carries
\* exactly 3 sensors whose (location, type) pairs are pairwise distinct and
\* are, in order, (rack-01, ambient), (rack-02, supply), (server-room,
\* return); every temperature_celsius lies in [20.0, 30.0] and is a whole
\* number of tenths.
C2_Temperature ==
    response.endpoint = TempPath =>
        LET sensors == response.body.sensors
        IN  /\ Len(sensors) = 3
            /\ \A i, j \in 1..Len(sensors) :
                  i # j => <<sensors[i].location, sensors[i].type>>
                           # <<sensors[j].location, sensors[j].type>>
            /\ [i \in 1..Len(sensors) |-> <<sensors[i].location, sensors[i].type>>]
                 = <<  <<"rack-01", "ambient">>, <<"rack-02", "supply">>,
                       <<"server-room", "return">>  >>
            /\ \A i \in 1..Len(sensors) :
                  /\ sensors[i].temperature_celsius >= 20 * Scale
                  /\ sensors[i].temperature_celsius <= 30 * Scale
                  /\ sensors[i].temperature_celsius % (Scale \div 10) = 0

\* a temperature response with a reading that round() moved (29.999990
\* became 30.0) next to one it left alone (20.0)
C2_Witness ==
    /\ response.endpoint = TempPath
    /\ \E a, b \in ElemsOf(response.body.sensors) :
          /\ a.temperature_celsius = 30 * Scale
          /\ b.temperature_celsius = 20 * Scale
    /\ \E r \in RandomSamples : uniform(TempMin, TempMax, r) % (Scale \div 10) # 0

\* C3: every response of GET /nlyte/api/v1/cooling/units carries a list
\* 'cooling_units' of 3 records, each with 60 <= current_load_percent <= 85,
\* capacity_kw = 50 and a status of operational or warning.
C3_Cooling ==
    response.endpoint = CoolingPath =>
        /\ Len(response.body.cooling_units) = 3
        /\ \A unit \in ElemsOf(response.body.cooling_units) :
              /\ unit.current_load_percent >= 60
              /\ unit.current_load_percent <= 85
              /\ unit.capacity_kw = 50
              /\ unit.status \in {"operational", "warning"}

\* a cooling response with both statuses and both ends of the load range
C3_Witness ==
    /\ response.endpoint = CoolingPath
    /\ \E a, b \in ElemsOf(response.body.cooling_units) :
          /\ a.status = "warning" /\ a.current_load_percent = 85
          /\ b.status = "operational" /\ b.current_load_percent = 60

\* C4 as claimed: of two successive /health responses the later one never
\* carries the earlier timestamp.
C4_Monotonic ==
    Len(healthSeen) = 2 => healthSeen[1] <= healthSeen[2]

\* C4 as amended: every /health response has status 'healthy' and carries
\* the wall clock's reading at the call; it is not earlier than the previous
\* /health timestamp unless the wall clock was set back between the calls.
C4_HealthyWallClock ==
    [][health_check =>
         /\ response'.body.status = "healthy"
         /\ response'.body.timestamp = wallClock
         /\ (healthSeen # <<>> /\ ~clockSetBack) =>
                response'.body.timestamp >= healthSeen[Len(healthSeen)]]_vars

\* two /health calls in a row with the clock running forward between them
C4_Witness ==
    /\ response.endpoint = HealthPath
    /\ Len(healthSeen) = 2
    /\ healthSeen[1] < healthSeen[2]
    /\ response.body.timestamp = healthSeen[2]

\* C5 as claimed: in every mode the process exits with code 1 exactly when
\* the self-test failed or an exception occurred, and with 0 otherwise.
C5_ExitCode ==
    (cliPc = "exited" /\ mode \in Modes) =>
        (exitCode = 1 <=> (selfTest = "False" \/ raised \in {"Exception", "SystemExit"}))

\* the server-side state a handler could touch
serverState == <<cliPc, mode, exitCode, raised, selfTest, checksRun, dataDir,
                 testFile, routes, wallClock>>

FreshPower == {Reply(PowerPath, b) : b \in PowerBodies}
FreshTemp == {Reply(TempPath, b) : b \in TempBodies}
FreshCooling == {Reply(CoolingPath, b) : b \in CoolingBodies}

\* C8: a handler invocation leaves the server-side state as it was, and
\* what it returns is one of the responses a first request could get,
\* whatever requests came before; /health depends on the clock alone.
C8_Stateless ==
    [][(response = NoResponse /\ response' # NoResponse) =>
         /\ UNCHANGED serverState
         /\ \/ response' \in FreshPower
            \/ response' \in FreshTemp
            \/ response' \in FreshCooling
            \/ response' = Reply(HealthPath, HealthBody(wallClock))]_vars

\* each endpoint answered after requests to the others came before it
C8_Witness ==
    /\ response.endpoint = PowerPath
    /\ Len(healthSeen) = 2
    /\ wallClock > 0

IsPrefix(s, t) == Len(s) <= Len(t) /\ \A i \in 1..Len(s) : s[i] = t[i]

\* C9 as claimed: the self-test runs imports, filesystem, network in this
\* order, each at most once, stops at the first failure, returns True only
\* after all three, and leaves no ./data/test.json behind when it failed.
C9_SelfTest ==
    /\ IsPrefix(checksRun, <<"imports", "filesystem", "network">>)
    /\ selfTest = "True" => Len(checksRun) = 3
    /\ selfTest = "False" => ~testFile

(***************************************************************************)
(* Properties of the demo API (SpecDemo).                                  *)
(***************************************************************************)
RemoteAnswered ==
    /\ demoResponse.endpoint = "/api/metrics/remote"
    /\ demoResponse.method = "GET"
    /\ remotePc = "idle"

NestedOk ==
    /\ nested.kind = "response"
    /\ nested.status = 200

\* C6: whatever way the nested call of GET /api/metrics/remote fails
\* (refused, another exception, a status other than 200), the handler
\* returns a JSON object with an 'error' field and no exception leaves it;
\* a body with 'status': 'success' and 'data' is returned only when the
\* nested call answered 200.
C6_RemoteErrors ==
    /\ ~propagated
    /\ RemoteAnswered =>
          /\ demoResponse.status = 200
          /\ ~NestedOk => "error" \in DOMAIN demoResponse.body
          /\ "data" \in DOMAIN demoResponse.body =>
                /\ NestedOk
                /\ demoResponse.body.status = "success"

\* the nested call broke off with an exception that is no ConnectionError,
\* and the handler answered with an error object
C6_Witness ==
    /\ RemoteAnswered
    /\ nested.kind = "ChunkedEncodingError"
    /\ "error" \in DOMAIN demoResponse.body

\* C10 as claimed: every GET /api/server_alert is answered by get_alert with
\* 'message': 'Alert, <name>!', 'status': 'success' and the 'name' field,
\* never with a server error.
C10_Alert ==
    (demoResponse.endpoint = "/api/server_alert" /\ demoResponse.method = "GET") =>
        /\ demoResponse.status = 200
        /\ {"message", "status", "name"} \subseteq DOMAIN demoResponse.body
        /\ demoResponse.body.status = "success"

(***************************************************************************)
(* Properties of the dashboard (SpecDashFair).                             *)
(***************************************************************************)
\* C7 as claimed: with auto-refresh on, every finished script run is
\* followed, without the user doing anything, by another render of freshly
\* sampled statistics.
C7_KeepsPolling ==
    (dashPc = "idle" /\ auto_refresh) ~> (dashPc = "body")

====
